---- MODULE Spec2Model ----
(***************************************************************************)
(* Model of the forecasting pipeline of src/api.py: get_recent_earthquakes *)
(* (default window frozen at import, memoised), region canonicalisation,   *)
(* preprocess_data (daily alignment), create_features (horizon extension,  *)
(* lags, rolling statistics) and get_forecast.                             *)
(*                                                                         *)
(* Representation.  A day is an integer day number (a timezone-naive       *)
(* calendar date).  A string is a sequence of tokens; the tokens "," and   *)
(* " " are the characters of the ", " delimiter, every other token is a    *)
(* run of other characters.  A number is an exact fraction <<n, d>> in     *)
(* lowest terms with d > 0; an absent value (NaN / None) is NA == <<>>.    *)
(* A standard deviation is the symbolic root <<"sqrt", n, d>> of its       *)
(* variance n/d.  A DataFrame is a sequence of rows in frame order, a row  *)
(* a record whose field `time` is the index value.                         *)
(***************************************************************************)
EXTENDS Integers, Sequences, FiniteSets, TLC

VARIABLES
    loadDate,   \* the date at which module api was imported
    today,      \* the current calendar date (datetime.now().date())
    catalog,    \* the events held by the remote event source
    cache,      \* st.cache_data entry of get_recent_earthquakes()
    reqWindow,  \* <<starttime, endtime>> of the last get_recent_earthquakes call
    runDate,    \* the date at the time of the last get_forecast invocation
    region,     \* the region argument of the last get_forecast invocation
    pc,         \* outcome of the last invocation
    regionCol,  \* df.region after canonicalisation (preprocess_data, get_regions)
    whitelist,  \* the set returned by the last get_regions call
    dense,      \* the frame returned by preprocess_data
    feat        \* the frame returned by create_features

vars == <<loadDate, today, catalog, cache, reqWindow, runDate, region, pc,
          regionCol, whitelist, dense, feat>>

(***************************************************************************)
(* Program constants                                                       *)
(***************************************************************************)
START_LAG == 3
END_LAG == 10
HORIZON == 3
WINDOW_DAYS == 30

(***************************************************************************)
(* Bounds of the model                                                     *)
(***************************************************************************)
MaxAge == 10      \* events of the wide input space are at most this old
MaxEvents == 2    \* events per fetched batch in the wide input space
MaxTicks == 3     \* days the clock may advance after import
MaxOccur == 2     \* events that may be added to the catalog after import
MaxPlaces == 3    \* events per batch in the input space of get_regions

(***************************************************************************)
(* Absent values and exact fractions                                       *)
(***************************************************************************)
NA == <<>>

Abs(x) == IF x < 0 THEN -x ELSE x

RECURSIVE Gcd(_, _)
Gcd(a, b) == IF b = 0 THEN a ELSE Gcd(b, a % b)

Frac(n, d) ==
    LET g == Gcd(Abs(n), d)
    IN  IF g = 0 THEN <<0, 1>> ELSE <<n \div g, d \div g>>

Num(n) == <<n, 1>>

Lcm(a, b) == (a * b) \div Gcd(a, b)

\* the least common denominator of the first n fractions of s
RECURSIVE CommonDenom(_, _)
CommonDenom(s, n) == IF n = 0 THEN 1 ELSE Lcm(s[n][2], CommonDenom(s, n - 1))

\* the sum of the first n fractions of s, in units of 1/L
RECURSIVE ScaledSum(_, _, _)
ScaledSum(s, L, n) ==
    IF n = 0 THEN 0 ELSE s[n][1] * (L \div s[n][2]) + ScaledSum(s, L, n - 1)

\* the sum of the squares of the first n fractions of s, in units of 1/L^2
RECURSIVE ScaledSumSq(_, _, _)
ScaledSumSq(s, L, n) ==
    IF n = 0 THEN 0
    ELSE LET x == s[n][1] * (L \div s[n][2])
         IN  x * x + ScaledSumSq(s, L, n - 1)

\* the arithmetic mean of a non-empty sequence of fractions
FracMean(s) ==
    LET L == CommonDenom(s, Len(s))
    IN  Frac(ScaledSum(s, L, Len(s)), L * Len(s))

\* the sample variance (ddof = 1) of a sequence of two or more fractions:
\* (w * sum(x^2) - sum(x)^2) / (w * (w - 1))
FracVar(s) ==
    LET w == Len(s)
        L == CommonDenom(s, w)
        sum == ScaledSum(s, L, w)
    IN  Frac(w * ScaledSumSq(s, L, w) - sum * sum, L * L * w * (w - 1))

\* Series.mean(): NaN values are skipped; NaN when nothing is left.
Mean(s) ==
    LET present == SelectSeq(s, LAMBDA v : v # NA)
    IN  IF present = <<>> THEN NA ELSE FracMean(present)

(***************************************************************************)
(* Strings                                                                 *)
(***************************************************************************)
COMMA == ","
SPACE == " "

\* index of the first ", " in s at or after position i, 0 when there is none
RECURSIVE FindDelim(_, _)
FindDelim(s, i) ==
    IF i + 1 > Len(s) THEN 0
    ELSE IF s[i] = COMMA /\ s[i + 1] = SPACE THEN i
    ELSE FindDelim(s, i + 1)

\* str.split(", "): the pieces between successive delimiters, left to right
RECURSIVE Split(_)
Split(s) ==
    LET i == FindDelim(s, 1)
    IN  IF i = 0 THEN <<s>>
        ELSE <<SubSeq(s, 1, i - 1)>> \o Split(SubSeq(s, i + 2, Len(s)))

HAWAII == <<"Hawaii">>
CALIFORNIA == <<"California">>
BAJA_CALIFORNIA == <<"Baja", " ", "California">>

\* Series.replace({"CA": "California", "B.C.": "Baja California"})
Replace(r) ==
    IF r = <<"CA">> THEN CALIFORNIA
    ELSE IF r = <<"B.C.">> THEN BAJA_CALIFORNIA
    ELSE r

\* the hardcoded superset of get_regions
KnownRegions ==
    { CALIFORNIA, <<"Alaska">>, <<"Nevada">>, HAWAII, <<"Washington">>,
      <<"Utah">>, <<"Montana">>, <<"Puerto", " ", "Rico">>, <<"Indonesia">>,
      <<"Chile">>, BAJA_CALIFORNIA, <<"Oklahoma">>, <<"Japan">>, <<"Greece">>,
      <<"Papua", " ", "New", " ", "Guinea">>, <<"Philippines">>, <<"Mexico">>,
      <<"Italy">>, <<"Russia">>, <<"Idaho">>, <<"Aleutian", " ", "Islands">>,
      <<"Tonga">>, <<"Oregon">>, <<"Wyoming">>, <<"Turkey">> }

RECURSIVE MaxOf(_)
MaxOf(s) ==
    IF s = <<>> THEN 0
    ELSE LET m == MaxOf(Tail(s)) IN IF s[1] > m THEN s[1] ELSE m

\* number of columns of df.place.str.split(", ", expand=True)
NumSplitCols(events) ==
    MaxOf([k \in 1..Len(events) |-> Len(Split(events[k].place))])

\* the last column of the expanded split instead of column 1
SplitColLast(place) ==
    LET pieces == Split(place)
    IN  IF Len(pieces) >= 2 THEN pieces[Len(pieces)] ELSE NA

\* column 1 of the expanded split; None where the row has fewer pieces
SplitCol1(place) ==
    LET pieces == Split(place)
    IN  IF Len(pieces) >= 2 THEN pieces[2] ELSE NA

\* selecting column 1 raises KeyError when the expanded frame lacks it
CanonRaises(events) == NumSplitCols(events) < 2

\* region of one row: column 1, fillna(place), replace(aliases)
CanonRegion(place) ==
    LET c == SplitCol1(place)
    IN  Replace(IF c = NA THEN place ELSE c)

RegionColumn(events) == [k \in 1..Len(events) |-> CanonRegion(events[k].place)]

\* get_regions(): hardcoded names that occur in the canonicalised batch
GetRegions(events) ==
    KnownRegions \cap {CanonRegion(events[k].place) : k \in 1..Len(events)}

(***************************************************************************)
(* Frames                                                                  *)
(***************************************************************************)
FIJI_REGION == <<"Fiji", " ", "region">>

\* the order of Python string comparison on the labels the model can produce;
\* groupby("region") emits its groups in this order
Lexicon ==
    << <<"Alaska">>, <<"Aleutian", " ", "Islands">>, BAJA_CALIFORNIA,
       CALIFORNIA, <<"Chile">>, FIJI_REGION, <<"Greece">>, HAWAII,
       <<"Idaho">>, <<"Indonesia">>, <<"Italy">>, <<"Japan">>, <<"Mexico">>,
       <<"Montana">>, <<"Nevada">>, <<"Oklahoma">>, <<"Oregon">>,
       <<"Papua", " ", "New", " ", "Guinea">>, <<"Philippines">>,
       <<"Puerto", " ", "Rico">>, <<"Russia">>, <<"Tonga">>, <<"Turkey">>,
       <<"Utah">>, <<"Washington">>, <<"Wyoming">> >>

ValueCols == <<"mag", "depth", "latitude", "longitude">>

RECURSIVE Concat(_)
Concat(ss) == IF ss = <<>> THEN <<>> ELSE ss[1] \o Concat(Tail(ss))

RECURSIVE MinTime(_)
MinTime(rows) ==
    IF Len(rows) = 1 THEN rows[1].time
    ELSE LET m == MinTime(Tail(rows))
         IN  IF rows[1].time < m THEN rows[1].time ELSE m

RECURSIVE MaxTime(_)
MaxTime(rows) ==
    IF Len(rows) = 1 THEN rows[1].time
    ELSE LET m == MaxTime(Tail(rows))
         IN  IF rows[1].time > m THEN rows[1].time ELSE m

\* pd.date_range(start, end, freq="d"); empty when end < start
DateRange(start, end) == [k \in 1..(end - start + 1) |-> start + k - 1]

\* the keys of groupby("region") in group order; rows without a region have no group
GroupKeys(rows) ==
    SelectSeq(Lexicon, LAMBDA r : \E k \in 1..Len(rows) : rows[k].region = r)

\* the rows of one group, in frame order
Group(rows, r) == SelectSeq(rows, LAMBDA row : row.region = r)

\* df.sort_values("time"), as a stable insertion sort
RECURSIVE InsertByTime(_, _)
InsertByTime(sorted, e) ==
    IF sorted = <<>> THEN <<e>>
    ELSE IF e.time < sorted[1].time THEN <<e>> \o sorted
    ELSE <<sorted[1]>> \o InsertByTime(Tail(sorted), e)

RECURSIVE SortByTime(_)
SortByTime(rows) ==
    IF rows = <<>> THEN <<>>
    ELSE InsertByTime(SortByTime(SubSeq(rows, 1, Len(rows) - 1)), rows[Len(rows)])

\* the batch with its region column, sorted by time
Canonicalized(events) ==
    SortByTime([k \in 1..Len(events) |->
        [time |-> events[k].time, region |-> CanonRegion(events[k].place),
         mag |-> events[k].mag, depth |-> events[k].depth,
         latitude |-> events[k].latitude, longitude |-> events[k].longitude]])

Column(rows, c) == [k \in 1..Len(rows) |-> rows[k][c]]

\* groupby("region").resample("d").mean(): per region one row per day between
\* its first and last event, each value the mean of that day's events
ResampleGroup(rows, r) ==
    LET g == Group(rows, r)
    IN  [k \in 1..(MaxTime(g) - MinTime(g) + 1) |->
            LET d == MinTime(g) + k - 1
                onDay == SelectSeq(g, LAMBDA row : row.time = d)
            IN  [time |-> d, region |-> r,
                 mag |-> Mean(Column(onDay, "mag")),
                 depth |-> Mean(Column(onDay, "depth")),
                 latitude |-> Mean(Column(onDay, "latitude")),
                 longitude |-> Mean(Column(onDay, "longitude"))]]

Resample(rows) ==
    LET keys == GroupKeys(rows)
    IN  Concat([i \in 1..Len(keys) |-> ResampleGroup(rows, keys[i])])

EmptyRow(d) ==
    [time |-> d, region |-> NA, mag |-> NA, depth |-> NA,
     latitude |-> NA, longitude |-> NA]

\* DataFrame.reindex(date_range): the row of each day, absent values where the
\* frame has no row for it
Reindexed(rows, range) ==
    [k \in 1..Len(range) |->
        LET hit == SelectSeq(rows, LAMBDA row : row.time = range[k])
        IN  IF hit = <<>> THEN EmptyRow(range[k]) ELSE hit[1]]

\* Series.ffill(): the last present value at or before position k
RECURSIVE FfillAt(_, _, _)
FfillAt(rows, k, c) ==
    IF k = 0 THEN NA
    ELSE IF rows[k][c] # NA THEN rows[k][c]
    ELSE FfillAt(rows, k - 1, c)

\* ffill left out: gap rows keep their absent values
FfillNothing(rows) == rows

\* DataFrame.ffill() on every column
Ffill(rows) ==
    [k \in 1..Len(rows) |->
        [time |-> rows[k].time,
         region |-> FfillAt(rows, k, "region"),
         mag |-> FfillAt(rows, k, "mag"),
         depth |-> FfillAt(rows, k, "depth"),
         latitude |-> FfillAt(rows, k, "latitude"),
         longitude |-> FfillAt(rows, k, "longitude")]]

\* df.region = df.region.ffill()
FfillRegion(rows) ==
    [k \in 1..Len(rows) |-> [rows[k] EXCEPT !.region = FfillAt(rows, k, "region")]]

\* reindex without the date range: the group is only forward-filled
reindexNoRange(group, delta, now) == Ffill(group)

\* reindex(group, delta)
reindex(group, delta, now) ==
    Ffill(Reindexed(group, DateRange(MinTime(group), now + delta)))

\* the forward fill applied to the concatenated frame instead of per group
ApplyReindexFillAcross(rows, delta, now) ==
    LET keys == GroupKeys(rows)
    IN  Ffill(Concat([i \in 1..Len(keys) |->
            Reindexed(Group(rows, keys[i]),
                      DateRange(MinTime(Group(rows, keys[i])), now + delta))]))

\* groupby("region").apply(lambda group: reindex(group, delta))
ApplyReindex(rows, delta, now) ==
    LET keys == GroupKeys(rows)
    IN  Concat([i \in 1..Len(keys) |-> reindex(Group(rows, keys[i]), delta, now)])

Whitelisted(rows, events) ==
    LET regions == GetRegions(events)
    IN  SelectSeq(rows, LAMBDA row : row.region \in regions)

\* the frame of preprocess_data before its region branch
Daily(events) == Resample(Canonicalized(events))

\* preprocess_data with a region raises when the region has no row
PreprocessRaises(events, r) ==
    r # NA /\ Group(Daily(events), r) = <<>>

preprocess_data(events, r, now) ==
    IF r = NA
    THEN ApplyReindex(Whitelisted(Daily(events), events), 0, now)
    ELSE LET own == Group(Daily(events), r)
         IN  Ffill(Reindexed(own, DateRange(MinTime(own), now)))

(***************************************************************************)
(* create_features                                                         *)
(***************************************************************************)
Lags == START_LAG..END_LAG
Windows == {START_LAG, END_LAG}

\* the frame positions of the rows of the group of row p, in frame order;
\* a row without a region belongs to no group
GroupPositions(rows, p) ==
    IF rows[p].region = NA THEN <<>>
    ELSE SelectSeq([k \in 1..Len(rows) |-> k],
                   LAMBDA k : rows[k].region = rows[p].region)

\* the rank of frame position p within its group
RankIn(idx, p) == Cardinality({j \in 1..Len(idx) : idx[j] <= p})

\* df[c].shift(i) without the groupby: i frame positions earlier
ShiftUngrouped(rows, c, i, idx, k) ==
    IF idx = <<>> \/ idx[k] - i < 1 THEN NA ELSE rows[idx[k] - i][c]

\* df.groupby("region")[c].shift(i) at a row of rank k in its group, whose
\* rows stand at the frame positions idx
GroupShift(rows, c, i, idx, k) ==
    IF idx = <<>> \/ k - i < 1 THEN NA ELSE rows[idx[k - i]][c]

\* rolling without the groupby: the w frame rows ending at the row
RollingWindowUngrouped(rows, c, w, idx, k) ==
    IF idx = <<>> \/ idx[k] < w THEN NA
    ELSE LET win == [j \in 1..w |-> rows[idx[k] - w + j][c]]
         IN  IF \E j \in 1..w : win[j] = NA THEN NA ELSE win

\* the values x.rolling(window=w) sees at that row: the w values of the group
\* ending at it; NA when fewer than w rows or an absent value among them
RollingWindow(rows, c, w, idx, k) ==
    IF idx = <<>> \/ k < w THEN NA
    ELSE LET win == [j \in 1..w |-> rows[idx[k - w + j]][c]]
         IN  IF \E j \in 1..w : win[j] = NA THEN NA ELSE win

\* rolling(w).mean() of a complete window
WindowMean(win) == FracMean(win)

\* rolling(w).std() of a complete window: the root of the sample variance
\* (ddof = 1)
WindowStd(win) == LET var == FracVar(win) IN <<"sqrt", var[1], var[2]>>

RollingMean(win) == IF win = NA THEN NA ELSE WindowMean(win)

RollingStd(win) == IF win = NA THEN NA ELSE WindowStd(win)

\* the lag and rolling columns added to the extended frame
AddFeatures(rows) ==
    [p \in 1..Len(rows) |->
        LET idx == GroupPositions(rows, p)
            k == RankIn(idx, p)
        IN  [time |-> rows[p].time, region |-> rows[p].region,
             mag |-> rows[p].mag, depth |-> rows[p].depth,
             latitude |-> rows[p].latitude, longitude |-> rows[p].longitude,
             mag_lag |-> [i \in Lags |-> GroupShift(rows, "mag", i, idx, k)],
             depth_lag |-> [i \in Lags |-> GroupShift(rows, "depth", i, idx, k)],
             mag_rolling_mean |->
                 [w \in Windows |-> RollingMean(RollingWindow(rows, "mag", w, idx, k))],
             mag_rolling_std |->
                 [w \in Windows |-> RollingStd(RollingWindow(rows, "mag", w, idx, k))],
             depth_rolling_mean |->
                 [w \in Windows |-> RollingMean(RollingWindow(rows, "depth", w, idx, k))],
             depth_rolling_std |->
                 [w \in Windows |-> RollingStd(RollingWindow(rows, "depth", w, idx, k))]]]

\* the horizon extension of create_features: per group through reindex(group, 3)
\* when no region is given, else one reindex and a forward fill of region only
Extended(df, r, now, events) ==
    IF r = NA
    THEN ApplyReindex(Whitelisted(df, events), HORIZON, now)
    ELSE FfillRegion(Reindexed(df, DateRange(MinTime(df), now + HORIZON)))

create_features(df, r, now, events) == AddFeatures(Extended(df, r, now, events))

(***************************************************************************)
(* The event source and the inputs of the model                            *)
(***************************************************************************)
VOLCANO_HAWAII == <<"Volcano", ",", " ", "Hawaii">>
ENSENADA_BC_MX == <<"Ensenada", ",", " ", "B.C.", ",", " ", "MX">>

\* the events a day can bring: two of one whitelisted region (one of them
\* without depth), one of a second whitelisted region whose place holds two
\* delimiters and an alias, one without delimiter and without magnitude
EventKinds ==
    { [place |-> VOLCANO_HAWAII, mag |-> Num(1), depth |-> Num(4),
       latitude |-> Num(10), longitude |-> Num(20)],
      [place |-> VOLCANO_HAWAII, mag |-> Num(3), depth |-> NA,
       latitude |-> Num(12), longitude |-> Num(20)],
      [place |-> ENSENADA_BC_MX, mag |-> Num(2), depth |-> Num(6),
       latitude |-> Num(14), longitude |-> Num(24)],
      [place |-> FIJI_REGION, mag |-> NA, depth |-> Num(5),
       latitude |-> Num(16), longitude |-> Num(28)] }

Event(kind, day) ==
    [place |-> kind.place, time |-> day, mag |-> kind.mag, depth |-> kind.depth,
     latitude |-> kind.latitude, longitude |-> kind.longitude]

Events(days) == {Event(kind, d) : kind \in EventKinds, d \in days}

\* what the source can hold at import: up to MaxEvents events of the last
\* MaxAge days, in time order
Batches ==
    UNION { {s \in [1..n -> Events((0 - MaxAge)..0)] :
                \A k \in 1..(n - 1) : s[k].time <= s[k + 1].time} : n \in 1..MaxEvents }

\* the place strings of the input space of get_regions: one, two and no
\* delimiter, both aliases, a comma without blank, a whitelisted name alone
Places ==
    { VOLCANO_HAWAII, ENSENADA_BC_MX, <<"Ridgecrest", ",", " ", "CA">>,
      FIJI_REGION, <<"Tonga">>, <<"Naples", ",", "Italy">> }

FirstKind == CHOOSE kind \in EventKinds : kind.depth = NA

At(place, day) == [Event(FirstKind, day) EXCEPT !.place = place]

PlaceBatches ==
    UNION { [1..n -> {At(pl, 0) : pl \in Places}] : n \in 1..MaxPlaces }

RegionArgs == {NA, HAWAII}

\* the rows the source returns for [starttime, endtime]
FetchEvents(source, window) ==
    SelectSeq(source, LAMBDA e : window[1] <= e.time /\ e.time <= window[2])

\* the default arguments of get_recent_earthquakes, evaluated when the def runs
DefaultWindow == <<loadDate - WINDOW_DAYS, loadDate>>

NotCached == [hit |-> FALSE, value |-> <<>>]

\* get_recent_earthquakes() under st.cache_data
RecentEarthquakes ==
    IF cache.hit THEN cache.value ELSE FetchEvents(catalog, DefaultWindow)

(***************************************************************************)
(* Actions                                                                 *)
(***************************************************************************)
\* get_forecast(region) up to the frame handed to the model
GetForecast(r) ==
    LET events == RecentEarthquakes
    IN  /\ cache' = [hit |-> TRUE, value |-> events]
        /\ reqWindow' = DefaultWindow
        /\ runDate' = today
        /\ region' = r
        /\ IF CanonRaises(events)
           THEN /\ pc' = "KeyError"
                /\ regionCol' = <<>>
                /\ dense' = <<>>
                /\ feat' = <<>>
           ELSE /\ regionCol' = RegionColumn(events)
                /\ IF PreprocessRaises(events, r)
                   THEN /\ pc' = "ValueError"
                        /\ dense' = <<>>
                        /\ feat' = <<>>
                   ELSE /\ pc' = "done"
                        /\ dense' = preprocess_data(events, r, today)
                        /\ feat' = create_features(dense', r, today, events)
        /\ whitelist' = IF r = NA /\ ~CanonRaises(events)
                        THEN GetRegions(events) ELSE whitelist
        /\ UNCHANGED <<loadDate, today, catalog>>

\* get_regions()
get_regions ==
    LET events == RecentEarthquakes
    IN  /\ cache' = [hit |-> TRUE, value |-> events]
        /\ reqWindow' = DefaultWindow
        /\ IF CanonRaises(events)
           THEN /\ pc' = "KeyError"
                /\ regionCol' = <<>>
                /\ whitelist' = {}
           ELSE /\ pc' = "regions"
                /\ regionCol' = RegionColumn(events)
                /\ whitelist' = GetRegions(events)
        /\ UNCHANGED <<loadDate, today, catalog, runDate, region, dense, feat>>

\* the calendar date advances
Tick ==
    /\ today < loadDate + MaxTicks
    /\ today' = today + 1
    /\ UNCHANGED <<loadDate, catalog, cache, reqWindow, runDate, region, pc,
                   regionCol, whitelist, dense, feat>>

\* the source records a new event of the current day
Occur(e) ==
    /\ Len(catalog) < 1 + MaxOccur
    /\ e.time = today
    /\ catalog' = Append(catalog, e)
    /\ UNCHANGED <<loadDate, today, cache, reqWindow, runDate, region, pc,
                   regionCol, whitelist, dense, feat>>

Idle ==
    /\ loadDate = 0
    /\ today = 0
    /\ cache = NotCached
    /\ reqWindow = NA
    /\ runDate = 0
    /\ region = NA
    /\ pc = "idle"
    /\ regionCol = <<>>
    /\ whitelist = {}
    /\ dense = <<>>
    /\ feat = <<>>

\* one invocation over every batch the source can return
Init == Idle /\ catalog \in Batches

Next == \E r \in RegionArgs : pc = "idle" /\ GetForecast(r)

Spec == Init /\ [][Next]_vars

\* the process over time: the clock advances and the catalog grows between
\* invocations
FirstEvent == Event(FirstKind, 0 - 1)

InitClock == Idle /\ catalog = <<FirstEvent>>

NextClock ==
    \/ Tick
    \/ \E e \in Events({today}) : Occur(e)
    \/ \E r \in RegionArgs : GetForecast(r)

SpecClock == InitClock /\ [][NextClock]_vars

\* get_regions over every batch of places
InitRegions == Idle /\ catalog \in PlaceBatches

NextRegions == pc = "idle" /\ get_regions

SpecRegions == InitRegions /\ [][NextRegions]_vars

(***************************************************************************)
(* Vocabulary of the properties                                            *)
(***************************************************************************)
\* the batch the last invocation worked on
Seen == cache.value

Ran == pc = "done"

RegionsIn(rows) == {rows[k].region : k \in 1..Len(rows)} \ {NA}

\* the days of the rows of region R, in frame order
DaysOf(rows, R) == Column(Group(rows, R), "time")

\* the value of column c in the row of region R at day d; NA without such a row
ValueAt(rows, R, d, c) ==
    LET hit == SelectSeq(rows, LAMBDA row : row.time = d /\ row.region = R)
    IN  IF hit = <<>> THEN NA ELSE hit[1][c]

\* the events of region R in the batch
EventsOf(R) == SelectSeq(Seen, LAMBDA e : CanonRegion(e.place) = R)

FirstObserved(R) == MinTime(EventsOf(R))

\* the rows of days after the date of the run
IsFuture(row) == row.time > runDate

(***************************************************************************)
(* C1                                                                      *)
(***************************************************************************)
\* the frame create_features returns for a batch
Pipeline(events, r, now) ==
    create_features(preprocess_data(events, r, now), r, now, events)

\* the batch with the mag and depth of its k-th event replaced
WithValues(events, k, v) ==
    [events EXCEPT ![k] = [@ EXCEPT !.mag = v.mag, !.depth = v.depth]]

\* the lag and rolling features of a row
LagAndRolling(row) ==
    <<row.mag_lag, row.depth_lag, row.mag_rolling_mean, row.mag_rolling_std,
      row.depth_rolling_mean, row.depth_rolling_std>>

\* C1: the lag and rolling features of a row (R, D) of create_features
\* depend only on R's mag and depth at days <= D - START_LAG: replacing the
\* mag and depth of an event of R at a later day (D itself included) leaves
\* every lag and rolling feature of the row unchanged.
C1_FeaturesIgnoreRecentValues ==
    Ran => \A k \in 1..Len(Seen) : \A v \in EventKinds :
              LET other == Pipeline(WithValues(Seen, k, v), region, runDate)
              IN  \A p \in 1..Len(feat) :
                     ( /\ feat[p].region = CanonRegion(Seen[k].place)
                       /\ Seen[k].time > feat[p].time - START_LAG ) =>
                         LagAndRolling(other[p]) = LagAndRolling(feat[p])

(***************************************************************************)
(* C2                                                                      *)
(***************************************************************************)
\* C2: every row of create_features beyond the date of the run carries the
\* region label and has mag, depth, latitude and longitude absent, with or
\* without a region argument.
C2_FutureRowsOnlyLabelled ==
    Ran => \A p \in 1..Len(feat) :
              IsFuture(feat[p]) =>
                  /\ feat[p].region # NA
                  /\ \A j \in 1..Len(ValueCols) : feat[p][ValueCols[j]] = NA

(***************************************************************************)
(* C3                                                                      *)
(***************************************************************************)
\* C3: every region of the preprocess_data frame has each day from its
\* earliest observed event day through the run date exactly once, in order,
\* and after create_features through the run date plus the horizon.
C3_DenseGridContiguous ==
    Ran => /\ \A R \in RegionsIn(dense) :
                 DaysOf(dense, R) = DateRange(FirstObserved(R), runDate)
           /\ \A R \in RegionsIn(feat) :
                 DaysOf(feat, R) = DateRange(FirstObserved(R), runDate + HORIZON)
           /\ RegionsIn(feat) = RegionsIn(dense)

\* a run without region argument over two regions, one of them with event
\* days that leave a gap
C3_Witness ==
    /\ Ran
    /\ region = NA
    /\ Cardinality(RegionsIn(dense)) = 2
    /\ \E R \in RegionsIn(dense) :
          /\ Len(EventsOf(R)) = 1
          /\ FirstObserved(R) < runDate - 1

(***************************************************************************)
(* C4                                                                      *)
(***************************************************************************)
\* C4: for every row (R, D) of create_features and every i in 3..10,
\* mag_lag_i and depth_lag_i equal the mag and depth of the preprocess_data
\* row of the same region exactly i days earlier, and are absent when that
\* day is before the region's first day.
C4_LagIsValueIDaysEarlier ==
    Ran => \A p \in 1..Len(feat) :
              LET R == feat[p].region
                  first == FirstObserved(R)
              IN  \A i \in Lags :
                     LET d == feat[p].time - i
                     IN  /\ feat[p].mag_lag[i] = ValueAt(dense, R, d, "mag")
                         /\ feat[p].depth_lag[i] = ValueAt(dense, R, d, "depth")
                         /\ d < first =>
                               feat[p].mag_lag[i] = NA /\ feat[p].depth_lag[i] = NA

\* two regions in one frame, the second in frame order with a defined lag and
\* with rows whose lag distance reaches before its first day
C4_Witness ==
    /\ Ran
    /\ region = NA
    /\ Cardinality(RegionsIn(feat)) = 2
    /\ \E p \in 2..Len(feat) :
          /\ feat[p].region # feat[1].region
          /\ feat[p].mag_lag[START_LAG] # NA
          /\ feat[p].mag_lag[END_LAG] = NA
          /\ feat[p].mag_lag[START_LAG] # feat[1].mag

(***************************************************************************)
(* C5                                                                      *)
(***************************************************************************)
\* days of history of region R before the horizon rows
History(R) == Len(SelectSeq(Group(feat, R), LAMBDA row : ~IsFuture(row)))

\* C5 as stated: every future row of a region with at least 10 days of
\* history has all of mag_lag_3..10 and depth_lag_3..10 defined.
C5_FutureLagsDefined ==
    Ran => \A p \in 1..Len(feat) :
              (IsFuture(feat[p]) /\ History(feat[p].region) >= END_LAG) =>
                  \A i \in Lags : feat[p].mag_lag[i] # NA /\ feat[p].depth_lag[i] # NA

\* C5 amended: every future row of a region with at least 10 days of history
\* has every lag 3..10 of a field defined, provided the region's grid holds a
\* value of that field on the tenth day before the horizon (a field with no
\* observation by then is absent, and so are its lags).
C5_FutureLagsDefinedOnceObserved ==
    Ran => \A p \in 1..Len(feat) :
              (IsFuture(feat[p]) /\ History(feat[p].region) >= END_LAG) =>
                  LET R == feat[p].region
                      anchor == runDate + 1 - END_LAG
                  IN  /\ ValueAt(dense, R, anchor, "mag") # NA =>
                            \A i \in Lags : feat[p].mag_lag[i] # NA
                      /\ ValueAt(dense, R, anchor, "depth") # NA =>
                            \A i \in Lags : feat[p].depth_lag[i] # NA

\* a region with exactly 10 days of history, a gap after its first day and
\* both fields observed on that day, with its three future rows
C5_Witness ==
    /\ Ran
    /\ \E R \in RegionsIn(feat) :
          /\ History(R) = END_LAG
          /\ Len(EventsOf(R)) = 1
          /\ ValueAt(dense, R, runDate + 1 - END_LAG, "mag") # NA
          /\ ValueAt(dense, R, runDate + 1 - END_LAG, "depth") # NA
          /\ Len(SelectSeq(Group(feat, R), IsFuture)) = HORIZON

(***************************************************************************)
(* C9                                                                      *)
(***************************************************************************)
\* the days on which the events ev of a region have a value of field c
DaysWithValue(ev, c) == {ev[k].time : k \in {j \in 1..Len(ev) : ev[j][c] # NA}}

SetMax(S) == CHOOSE x \in S : \A y \in S : y <= x

\* the mean of field c over those of the events ev of a region on day d
DayMean(ev, d, c) == Mean(Column(SelectSeq(ev, LAMBDA e : e.time = d), c))

\* C9: in the preprocess_data frame, on a day of region R without an event,
\* each of mag, depth, latitude and longitude is the per-day mean of the most
\* recent earlier day of R that has a value of that field, and is absent when
\* no earlier day of R has one.
C9_GapFilledFromOwnRegion ==
    Ran => \A p \in 1..Len(dense) :
              LET ev == EventsOf(dense[p].region)
                  D == dense[p].time
              IN  (\A k \in 1..Len(ev) : ev[k].time # D) =>
                     \A j \in 1..Len(ValueCols) :
                        LET c == ValueCols[j]
                            earlier == {d \in DaysWithValue(ev, c) : d < D}
                        IN  dense[p][c] =
                               IF earlier = {} THEN NA
                               ELSE DayMean(ev, SetMax(earlier), c)

\* two regions; the second in frame order starts with depth absent and has a
\* gap day on which depth is still absent while the first region has a depth
C9_Witness ==
    /\ Ran
    /\ region = NA
    /\ \E p \in 2..Len(dense) :
          /\ dense[p].region # dense[1].region
          /\ dense[1].depth # NA
          /\ dense[p].depth = NA
          /\ dense[p].mag # NA
          /\ dense[p].time > FirstObserved(dense[p].region)

(***************************************************************************)
(* C6                                                                      *)
(***************************************************************************)
\* the values of column c of region R on the w days ending at day D, taken
\* from the create_features frame by region and day
DayWindow(R, D, c, w) == [j \in 1..w |-> ValueAt(feat, R, D - w + j, c)]

Complete(win) == \A j \in 1..Len(win) : win[j] # NA

\* the rolling statistics of row p are those of the region's values on the w
\* days ending at the row's day, absent when one of them is absent or missing
RollingFromOwnDays(p, w) ==
    LET R == feat[p].region
        D == feat[p].time
        magWin == DayWindow(R, D, "mag", w)
        depthWin == DayWindow(R, D, "depth", w)
    IN  /\ feat[p].mag_rolling_mean[w] =
              IF Complete(magWin) THEN WindowMean(magWin) ELSE NA
        /\ feat[p].mag_rolling_std[w] =
              IF Complete(magWin) THEN WindowStd(magWin) ELSE NA
        /\ feat[p].depth_rolling_mean[w] =
              IF Complete(depthWin) THEN WindowMean(depthWin) ELSE NA
        /\ feat[p].depth_rolling_std[w] =
              IF Complete(depthWin) THEN WindowStd(depthWin) ELSE NA

\* the mag-derived lag and rolling values of a row that are present
MagFeatureValues(row) ==
    ( {<<"lag", i, row.mag_lag[i]>> : i \in Lags}
      \cup {<<"mean", w, row.mag_rolling_mean[w]>> : w \in Windows}
      \cup {<<"std", w, row.mag_rolling_std[w]>> : w \in Windows} )
    \ ( {<<"lag", i, NA>> : i \in Lags}
        \cup {<<"mean", w, NA>> : w \in Windows}
        \cup {<<"std", w, NA>> : w \in Windows} )

\* two regions with the same days whose magnitude sequences differ have no
\* present lag or rolling value of magnitude in common on any day
NeverShareValue ==
    \A R1, R2 \in RegionsIn(feat) :
        ( /\ R1 # R2
          /\ DaysOf(feat, R1) = DaysOf(feat, R2)
          /\ Column(Group(feat, R1), "mag") # Column(Group(feat, R2), "mag") ) =>
            \A j \in 1..Len(Group(feat, R1)) :
                MagFeatureValues(Group(feat, R1)[j])
                    \cap MagFeatureValues(Group(feat, R2)[j]) = {}

\* C6 as stated: every rolling mean and standard deviation of window W in
\* {3, 10} at (R, D) is a function of R's grid values on days D-W+1..D only,
\* so that two regions with identical day ranges and different magnitude
\* sequences never share a lag or rolling value.
C6_RollingOwnWindowNeverShared ==
    Ran => /\ \A p \in 1..Len(feat) : \A w \in Windows : RollingFromOwnDays(p, w)
           /\ NeverShareValue

\* C6 amended: every rolling mean and standard deviation of window W in
\* {3, 10} at (R, D) is a function of R's grid values on days D-W+1..D only;
\* the values of two regions are computed each from its own sequence (and may
\* coincide where the two windows yield the same statistic).
C6_RollingOwnWindow ==
    Ran => \A p \in 1..Len(feat) : \A w \in Windows : RollingFromOwnDays(p, w)

\* two regions in one frame, the second in frame order with a defined
\* 10-day rolling mean of both fields that differs from the first region's
C6_Witness ==
    /\ Ran
    /\ region = NA
    /\ \E p \in 2..Len(feat) : \E q \in 1..(p - 1) :
          /\ feat[p].region # feat[q].region
          /\ feat[p].mag_rolling_mean[END_LAG] # NA
          /\ feat[p].depth_rolling_std[END_LAG] # NA
          /\ feat[q].mag_rolling_mean[END_LAG] # NA
          /\ feat[q].mag_rolling_mean[END_LAG] # feat[p].mag_rolling_mean[END_LAG]

(***************************************************************************)
(* C7, C8                                                                  *)
(***************************************************************************)
\* the canonicalisation produced a region column
Canonicalised == pc \in {"done", "ValueError", "regions"}

\* everything after the first ", ", or the whole string without one
AfterFirstDelim(place) ==
    LET i == FindDelim(place, 1)
    IN  IF i = 0 THEN place ELSE SubSeq(place, i + 2, Len(place))

\* the text between the first ", " and the second (or the end of the string),
\* or the whole string without a ", "
SecondSegment(place) ==
    LET i == FindDelim(place, 1)
        j == FindDelim(place, i + 2)
    IN  IF i = 0 THEN place
        ELSE IF j = 0 THEN SubSeq(place, i + 2, Len(place))
        ELSE SubSeq(place, i + 2, j - 1)

C8_CanonicalisationNeverRaises ==
    pc # "idle" =>
        /\ pc # "KeyError"
        /\ \A k \in 1..Len(Seen) :
              FindDelim(Seen[k].place, 1) = 0 => regionCol[k] = Seen[k].place

(***************************************************************************)
(* C10                                                                     *)
(***************************************************************************)
\* C10: every get_forecast invocation requests the events of [d - 30, d],
\* d the date of the invocation, the date its alignment ends at.
C10_FetchWindowFollowsClock ==
    pc # "idle" => reqWindow = <<runDate - WINDOW_DAYS, runDate>>

====
